---------------------------- MODULE Spec2Model ----------------------------
(***************************************************************************)
(* Model of testnet/src/config.rs: the resolution of a parsed ConfigFile   *)
(* into a Config (Config::from_config_file, Config::default), the helpers  *)
(* it calls (NodeConfig::default, NodeConfig::set_bootstrap_node,          *)
(* BurnchainConfig::default) and the event-key grammar                     *)
(* (EventKeyType::from_string).                                            *)
(*                                                                         *)
(* Strings the code only stores, compares or formats are TLA+ strings.     *)
(* Strings the code splits or decodes (event keys, the bootstrap node, the *)
(* hex seed, addresses) are sequences of one-character strings.            *)
(***************************************************************************)
EXTENDS Integers, Sequences, FiniteSets, TLC

VARIABLES
    config_file,    \* the ConfigFile handed to Config::from_config_file
    env_observer,   \* std::env::var("STACKS_EVENT_OBSERVER"): Option<String>
    outcome,        \* what the last construction call did: nothing yet, a Config, a panic
    previous,       \* the outcome of the call before it, when that call resolved the same document
    raw_key,        \* the argument of EventKeyType::from_string
    parsed_key,     \* its return value, once called
    rand_buf,       \* the 8 bytes rng.fill_bytes leaves in NodeConfig::default's buffer
    node_default,   \* the return value of NodeConfig::default, once called
    built,          \* the outcome of the last construction call, as that call left it
    calls           \* the Config::add_initial_balance calls made on the Config since

vars ==
    <<config_file, env_observer, outcome, previous, raw_key, parsed_key, rand_buf, node_default,
      built, calls>>

(***************************************************************************)
(* Bounds of the model.                                                    *)
(***************************************************************************)
MaxBalances == 2
MaxObservers == 2
MaxKeyTokens == 5
MaxCalls == 3

(***************************************************************************)
(* Option<T>, Result<T, E> and a panic.                                    *)
(***************************************************************************)
None == [some |-> FALSE]
Some(v) == [some |-> TRUE, val |-> v]
unwrap_or(opt, dflt) == IF opt.some THEN opt.val ELSE dflt

Ok(v) == [ok |-> TRUE, val |-> v]
Err(e) == [ok |-> FALSE, err |-> e]

Returned(via, cfg) == [kind |-> "config", via |-> via, config |-> cfg]
Panicked(via, msg) == [kind |-> "panic", via |-> via, msg |-> msg]
NotCalled == [kind |-> "none"]

(***************************************************************************)
(* str::split(pattern): the segments between the non-overlapping matches   *)
(* of the pattern, found left to right; a string with no match is one      *)
(* segment, and so is the empty string.                                    *)
(***************************************************************************)
MatchAt(s, d, i) == i + Len(d) - 1 <= Len(s) /\ SubSeq(s, i, i + Len(d) - 1) = d

RECURSIVE split(_, _)
split(s, d) ==
    LET hits == {i \in 1..Len(s) : MatchAt(s, d, i)}
    IN  IF hits = {} THEN <<s>>
        ELSE LET i == CHOOSE j \in hits : \A k \in hits : j <= k
             IN  <<SubSeq(s, 1, i - 1)>> \o split(SubSeq(s, i + Len(d), Len(s)), d)

(***************************************************************************)
(* The parsers of the stacks crate that config.rs calls.                   *)
(***************************************************************************)
Letters == {"s", "t", "x", "S", "P", "Q"}
HexDigits == <<"0", "1", "2", "3", "4", "5", "6", "7", "8", "9", "a", "b", "c", "d", "e", "f">>
StandardPrincipals == {<<"S", "P">>, <<"S", "Q">>}

\* a standard principal is "S", then the version character (then, in the code, the hash)
parse_standard_principal(s) ==
    IF s \in StandardPrincipals THEN Ok([version |-> s[2]]) ELSE Err("bad principal")

ContractName_try_from(s) ==
    IF Len(s) >= 1 /\ \A i \in 1..Len(s) : s[i] \in Letters THEN Ok(s) ELSE Err("bad name")

ClarityName_try_from(s) ==
    IF Len(s) >= 1 /\ \A i \in 1..Len(s) : s[i] \in Letters THEN Ok(s) ELSE Err("bad name")

QualifiedContractIdentifier_new(address, name) == [issuer |-> address, name |-> name]

QualifiedContractIdentifier_parse(s) ==
    LET parts == split(s, <<".">>)
    IN  IF Len(parts) # 2 THEN Err("bad contract identifier")
        ELSE LET address == parse_standard_principal(parts[1])
                 name == ContractName_try_from(parts[2])
             IN  IF address.ok /\ name.ok
                 THEN Ok(QualifiedContractIdentifier_new(address.val, name.val))
                 ELSE Err("bad contract identifier")

UpperHexDigits == <<"0", "1", "2", "3", "4", "5", "6", "7", "8", "9", "A", "B", "C", "D", "E", "F">>
HexValue(c) == (CHOOSE i \in 1..16 : HexDigits[i] = c \/ UpperHexDigits[i] = c) - 1
IsHexDigit(c) == \E i \in 1..16 : HexDigits[i] = c \/ UpperHexDigits[i] = c

hex_bytes(s) ==
    IF Len(s) % 2 # 0 \/ \E i \in 1..Len(s) : ~IsHexDigit(s[i])
    THEN Err("bad hex")
    ELSE Ok([i \in 1..(Len(s) \div 2) |-> 16 * HexValue(s[2 * i - 1]) + HexValue(s[2 * i])])

to_hex(bytes) ==
    LET RECURSIVE hex(_)
        hex(i) == IF i > Len(bytes) THEN ""
                  ELSE HexDigits[(bytes[i] \div 16) + 1] \o HexDigits[(bytes[i] % 16) + 1] \o hex(i + 1)
    IN  hex(1)

(***************************************************************************)
(* EventKeyType and EventKeyType::from_string.                             *)
(***************************************************************************)
AnyEvent == [type |-> "AnyEvent"]
STXEvent == [type |-> "STXEvent"]
AssetEvent(asset_identifier) == [type |-> "AssetEvent", asset |-> asset_identifier]
SmartContractEvent(contract_identifier, event_name) ==
    [type |-> "SmartContractEvent", contract |-> contract_identifier, event |-> event_name]

\* mutant: every key of two or more "::"-segments is read as a contract event
from_string_two_or_more(raw) ==
    IF raw = <<"*">> THEN Some(AnyEvent)
    ELSE IF raw = <<"s", "t", "x">> THEN Some(STXEvent)
    ELSE LET comps == split(raw, <<":", ":">>)
         IN  IF Len(comps) = 1
             THEN LET parts == split(comps[1], <<".">>)
                  IN  IF Len(parts) # 3 THEN None
                      ELSE LET address == parse_standard_principal(parts[1])
                               name == ContractName_try_from(parts[2])
                               asset_name == ClarityName_try_from(parts[3])
                           IN  IF address.ok /\ name.ok /\ asset_name.ok
                               THEN Some(AssetEvent(
                                        [contract_identifier |->
                                             QualifiedContractIdentifier_new(address.val, name.val),
                                         asset_name |-> asset_name.val]))
                               ELSE None
             ELSE LET contract_identifier == QualifiedContractIdentifier_parse(comps[1])
                  IN  IF contract_identifier.ok
                      THEN Some(SmartContractEvent(contract_identifier.val, comps[2]))
                      ELSE None

from_string(raw) ==
    IF raw = <<"*">> THEN Some(AnyEvent)
    ELSE IF raw = <<"s", "t", "x">> THEN Some(STXEvent)
    ELSE LET comps == split(raw, <<":", ":">>)
         IN  IF Len(comps) = 1
             THEN LET parts == split(comps[1], <<".">>)
                  IN  IF Len(parts) # 3 THEN None
                      ELSE LET address == parse_standard_principal(parts[1])
                               name == ContractName_try_from(parts[2])
                               asset_name == ClarityName_try_from(parts[3])
                           IN  IF address.ok /\ name.ok /\ asset_name.ok
                               THEN Some(AssetEvent(
                                        [contract_identifier |->
                                             QualifiedContractIdentifier_new(address.val, name.val),
                                         asset_name |-> asset_name.val]))
                               ELSE None
             ELSE IF Len(comps) = 2
             THEN LET contract_identifier == QualifiedContractIdentifier_parse(comps[1])
                  IN  IF contract_identifier.ok
                      THEN Some(SmartContractEvent(contract_identifier.val, comps[2]))
                      ELSE None
             ELSE None

(***************************************************************************)
(* NodeConfig: its default, drawn from 8 random bytes, its path helpers    *)
(* and set_bootstrap_node.                                                 *)
(***************************************************************************)
u16_from_be_bytes(hi, lo) == 256 * hi + lo
\* mutant: the addition wraps around at 2^16
u16_wrapping_add(a, b) == (a + b) % 2^16

u16_saturating_add(a, b) == IF a + b > 2^16 - 1 THEN 2^16 - 1 ELSE a + b

\* mutant: the default seed is drawn from the random bytes too
NodeConfig_default_random_seed(buf) ==
    LET testnet_id == "stacks-testnet-" \o to_hex(buf)
        rpc_port == u16_saturating_add(u16_from_be_bytes(buf[1], buf[2]), 1024)
        p2p_port == u16_saturating_add(u16_from_be_bytes(buf[3], buf[4]), 1024)
    IN  [name |-> "helium-node",
         seed |-> [i \in 1..32 |-> buf[((i - 1) % 8) + 1]],
         working_dir |-> "/tmp/" \o testnet_id,
         rpc_bind |-> "127.0.0.1:" \o ToString(rpc_port),
         p2p_bind |-> "127.0.0.1:" \o ToString(p2p_port),
         bootstrap_node |-> None]

NodeConfig_default(buf) ==
    LET testnet_id == "stacks-testnet-" \o to_hex(buf)
        rpc_port == u16_saturating_add(u16_from_be_bytes(buf[1], buf[2]), 1024)
        p2p_port == u16_saturating_add(u16_from_be_bytes(buf[3], buf[4]), 1024)
    IN  [name |-> "helium-node",
         seed |-> [i \in 1..32 |-> 0],
         working_dir |-> "/tmp/" \o testnet_id,
         rpc_bind |-> "127.0.0.1:" \o ToString(rpc_port),
         p2p_bind |-> "127.0.0.1:" \o ToString(p2p_port),
         bootstrap_node |-> None]

get_burnchain_path(node) == node.working_dir \o "/burnchain"
get_default_spv_headers_path(node) == get_burnchain_path(node) \o "/spv-headers.dat"

\* <SocketAddr as FromStr>::from_str and Secp256k1PublicKey::from_hex
SocketAddrs == {<<"h", ":", "1">>, <<"h", ":", "2">>}
PublicKeys == {<<"0", "2">>, <<"0", "3">>}
SocketAddr_parse(s) ==
    IF s \in SocketAddrs THEN Ok([ip |-> s[1], port |-> s[3]]) ELSE Err("bad socket address")
Secp256k1PublicKey_from_hex(s) ==
    IF s \in PublicKeys THEN Ok(s) ELSE Err("bad public key")

set_bootstrap_node(self, bootstrap_node) ==
    IF ~bootstrap_node.some THEN Ok(self)
    ELSE LET comps == split(bootstrap_node.val, <<"@">>)
         IN  IF Len(comps) = 2
             THEN LET sock_addr == SocketAddr_parse(comps[2])
                      public_key == Secp256k1PublicKey_from_hex(comps[1])
                  IN  IF ~sock_addr.ok THEN Err("unwrap: peer_addr.parse()")
                      ELSE IF ~public_key.ok THEN Err("unwrap: Secp256k1PublicKey::from_hex")
                      ELSE Ok([self EXCEPT !.bootstrap_node = Some(
                               [addr |-> [peer_version |-> "PEER_VERSION",
                                          network_id |-> "NETWORK_ID_TESTNET",
                                          addrbytes |-> sock_addr.val.ip,
                                          port |-> sock_addr.val.port],
                                public_key |-> public_key.val,
                                expire_block |-> 99999,
                                last_contact_time |-> 0,
                                whitelisted |-> 0,
                                blacklisted |-> 0,
                                asn |-> 0,
                                org |-> 0,
                                in_degree |-> 0,
                                out_degree |-> 0])])
             ELSE Ok(self)

(***************************************************************************)
(* BurnchainConfig::default.                                               *)
(***************************************************************************)
FIRST_BLOCK_MAINNET == 373601
BLOCKSTACK_MAGIC_MAINNET == "id"

BurnchainConfig_default ==
    [chain |-> "bitcoin",
     mode |-> "mocknet",
     burn_fee_cap |-> 10000,
     commit_anchor_block_within |-> 5000,
     peer_host |-> "127.0.0.1",
     peer_port |-> 8333,
     rpc_port |-> 8332,
     rpc_ssl |-> FALSE,
     username |-> None,
     password |-> None,
     timeout |-> 30,
     spv_headers_path |-> "./spv-headers.dat",
     first_block |-> FIRST_BLOCK_MAINNET,
     magic_bytes |-> BLOCKSTACK_MAGIC_MAINNET,
     local_mining_public_key |-> None,
     burnchain_op_tx_fee |-> 1000]

(***************************************************************************)
(* ConnectionOptions: the stacks crate's default and the testnet's         *)
(* HELIUM_DEFAULT_CONNECTION_OPTIONS built on it. TLC's integers are 32    *)
(* bits wide: I64_MAX stands for 9223372036854775807, which the code only  *)
(* stores.                                                                 *)
(***************************************************************************)
I64_MAX == 2147483647

ConnectionOptions_default ==
    [inbox_maxlen |-> 5,
     outbox_maxlen |-> 5,
     timeout |-> 30,
     idle_timeout |-> 30,
     heartbeat |-> 2592000,
     private_key_lifetime |-> 4302,
     num_neighbors |-> 160,
     num_clients |-> 256,
     soft_num_neighbors |-> 20,
     soft_num_clients |-> 128,
     max_neighbors_per_host |-> 10,
     max_clients_per_host |-> 10,
     soft_max_neighbors_per_host |-> 10,
     soft_max_neighbors_per_org |-> 10,
     soft_max_clients_per_host |-> 10,
     walk_interval |-> 300,
     dns_timeout |-> 15000,
     max_inflight_blocks |-> 6,
     read_only_call_limit |-> [write_length |-> 0, write_count |-> 0,
                               read_length |-> 100000, read_count |-> 30,
                               runtime |-> 1000000000],
     maximum_call_argument_size |-> 81920,
     rest |-> "ConnectionOptions::default()"]

HELIUM_DEFAULT_CONNECTION_OPTIONS ==
    [ConnectionOptions_default EXCEPT
        !.inbox_maxlen = 100,
        !.outbox_maxlen = 100,
        !.timeout = 5000,
        !.idle_timeout = 15,
        !.heartbeat = 60000,
        !.private_key_lifetime = I64_MAX,
        !.num_neighbors = 4,
        !.num_clients = 1000,
        !.soft_num_neighbors = 4,
        !.soft_num_clients = 1000,
        !.max_neighbors_per_host = 10,
        !.max_clients_per_host = 1000,
        !.soft_max_neighbors_per_host = 10,
        !.soft_max_neighbors_per_org = 100,
        !.soft_max_clients_per_host = 1000,
        !.walk_interval = I64_MAX,
        !.dns_timeout = 15000,
        !.max_inflight_blocks = 6]

(***************************************************************************)
(* Config::from_config_file, one operator per step of its body. A step     *)
(* that can panic returns Err with the panic; the steps run in the code's  *)
(* order and the first panic ends the call.                                *)
(***************************************************************************)
\* the node section: lines 85-103
resolve_node(node_file, default_node_config) ==
    IF ~node_file.some THEN Ok(default_node_config)
    ELSE LET node == node_file.val
             seed == IF node.seed.some THEN hex_bytes(node.seed.val)
                     ELSE Ok(default_node_config.seed)
         IN  IF ~seed.ok THEN Err("Seed should be a hex encoded string")
             ELSE set_bootstrap_node(
                      [name |-> unwrap_or(node.name, default_node_config.name),
                       seed |-> seed.val,
                       working_dir |-> unwrap_or(node.working_dir, default_node_config.working_dir),
                       rpc_bind |-> unwrap_or(node.rpc_bind, default_node_config.rpc_bind),
                       p2p_bind |-> unwrap_or(node.p2p_bind, default_node_config.p2p_bind),
                       bootstrap_node |-> None],
                      node.bootstrap_node)

\* the burnchain section: lines 105-128
resolve_burnchain(burnchain_file, default_burnchain_config, node) ==
    IF ~burnchain_file.some THEN default_burnchain_config
    ELSE LET burnchain == burnchain_file.val
         IN  [chain |-> unwrap_or(burnchain.chain, default_burnchain_config.chain),
              mode |-> unwrap_or(burnchain.mode, default_burnchain_config.mode),
              burn_fee_cap |-> unwrap_or(burnchain.burn_fee_cap, default_burnchain_config.burn_fee_cap),
              commit_anchor_block_within |->
                  unwrap_or(burnchain.commit_anchor_block_within,
                            default_burnchain_config.commit_anchor_block_within),
              peer_host |-> unwrap_or(burnchain.peer_host, default_burnchain_config.peer_host),
              peer_port |-> unwrap_or(burnchain.peer_port, default_burnchain_config.peer_port),
              rpc_port |-> unwrap_or(burnchain.rpc_port, default_burnchain_config.rpc_port),
              rpc_ssl |-> unwrap_or(burnchain.rpc_ssl, default_burnchain_config.rpc_ssl),
              username |-> burnchain.username,
              password |-> burnchain.password,
              timeout |-> unwrap_or(burnchain.timeout, default_burnchain_config.timeout),
              spv_headers_path |->
                  unwrap_or(burnchain.spv_headers_path, get_default_spv_headers_path(node)),
              first_block |-> unwrap_or(burnchain.first_block, default_burnchain_config.first_block),
              magic_bytes |-> default_burnchain_config.magic_bytes,
              local_mining_public_key |-> burnchain.local_mining_public_key,
              burnchain_op_tx_fee |->
                  unwrap_or(burnchain.burnchain_op_tx_fee, default_burnchain_config.burnchain_op_tx_fee)]

\* the two checks of the resolved burnchain: lines 130-138
supported_modes == <<"mocknet", "helium", "neon", "neon-god">>

\* mutant: the mode is compared without regard to case
check_mode_ignoring_case(burnchain) ==
    LET lower == IF burnchain.mode = "Helium" THEN "helium" ELSE burnchain.mode
    IN  IF ~(\E i \in 1..Len(supported_modes) : supported_modes[i] = lower)
        THEN Err("Setting burnchain.network not supported (should be: mocknet, helium, neon, neon-god)")
        ELSE Ok(burnchain)

check_mode(burnchain) ==
    IF ~(\E i \in 1..Len(supported_modes) : supported_modes[i] = burnchain.mode)
    THEN Err("Setting burnchain.network not supported (should be: mocknet, helium, neon, neon-god)")
    ELSE Ok(burnchain)

\* mutant: the mining key is demanded in every mode
check_mining_key_every_mode(burnchain) ==
    IF ~burnchain.local_mining_public_key.some
    THEN Err("Config is missing the setting burnchain.local_mining_public_key (mandatory for helium)")
    ELSE Ok(burnchain)

check_mining_key(burnchain) ==
    IF burnchain.mode = "helium" /\ ~burnchain.local_mining_public_key.some
    THEN Err("Config is missing the setting burnchain.local_mining_public_key (mandatory for helium)")
    ELSE Ok(burnchain)

\* mutant: an address that does not parse is skipped (filter_map) instead of unwrapped
resolve_initial_balances_skipping(mstx_balance) ==
    IF ~mstx_balance.some THEN Ok(<<>>)
    ELSE LET kept == SelectSeq(mstx_balance.val, LAMBDA b : parse_standard_principal(b.address).ok)
         IN  Ok([i \in 1..Len(kept) |->
                    [address |-> parse_standard_principal(kept[i].address).val,
                     amount |-> kept[i].amount]])

\* mstx_balance: lines 140-148
resolve_initial_balances(mstx_balance) ==
    IF ~mstx_balance.some THEN Ok(<<>>)
    ELSE LET balances == mstx_balance.val
             parsed == [i \in 1..Len(balances) |-> parse_standard_principal(balances[i].address)]
         IN  IF \E i \in 1..Len(balances) : ~parsed[i].ok
             THEN Err("unwrap: parse_standard_principal")
             ELSE Ok([i \in 1..Len(balances) |->
                         [address |-> parsed[i].val, amount |-> balances[i].amount]])

\* events_observer: lines 150-166
resolve_events_keys(events_keys) ==
    LET parsed == [i \in 1..Len(events_keys) |-> from_string(events_keys[i])]
    IN  IF \E i \in 1..Len(events_keys) : ~parsed[i].some
        THEN Err("unwrap: EventKeyType::from_string")
        ELSE Ok([i \in 1..Len(events_keys) |-> parsed[i].val])

resolve_events_observers(events_observer) ==
    IF ~events_observer.some THEN Ok(<<>>)
    ELSE LET raw_observers == events_observer.val
             keys == [i \in 1..Len(raw_observers) |-> resolve_events_keys(raw_observers[i].events_keys)]
         IN  IF \E i \in 1..Len(raw_observers) : ~keys[i].ok
             THEN Err("unwrap: EventKeyType::from_string")
             ELSE Ok([i \in 1..Len(raw_observers) |->
                         [endpoint |-> raw_observers[i].endpoint, events_keys |-> keys[i].val]])

\* mutant: the observer of the environment variable is put first (insert(0, ..))
push_env_observer_in_front(events_observers, env_var) ==
    IF env_var.some
    THEN <<[endpoint |-> env_var.val, events_keys |-> <<AnyEvent>>]>> \o events_observers
    ELSE events_observers

\* the observer of the environment variable: lines 168-177
push_env_observer(events_observers, env_var) ==
    IF env_var.some
    THEN Append(events_observers, [endpoint |-> env_var.val, events_keys |-> <<AnyEvent>>])
    ELSE events_observers

\* connection_options: lines 179-214
\* mutant: write_count is set from the document's write_length (a copied line)
resolve_read_only_call_limit_copied(opts) ==
    LET base == HELIUM_DEFAULT_CONNECTION_OPTIONS.read_only_call_limit
    IN  [write_length |-> unwrap_or(opts.read_only_call_limit_write_length, base.write_length),
         write_count |-> unwrap_or(opts.read_only_call_limit_write_length, base.write_count),
         read_length |-> unwrap_or(opts.read_only_call_limit_read_length, base.read_length),
         read_count |-> unwrap_or(opts.read_only_call_limit_read_count, base.read_count),
         runtime |-> unwrap_or(opts.read_only_call_limit_runtime, base.runtime)]

resolve_read_only_call_limit(opts) ==
    LET base == HELIUM_DEFAULT_CONNECTION_OPTIONS.read_only_call_limit
    IN  [write_length |-> unwrap_or(opts.read_only_call_limit_write_length, base.write_length),
         write_count |-> unwrap_or(opts.read_only_call_limit_write_count, base.write_count),
         read_length |-> unwrap_or(opts.read_only_call_limit_read_length, base.read_length),
         read_count |-> unwrap_or(opts.read_only_call_limit_read_count, base.read_count),
         runtime |-> unwrap_or(opts.read_only_call_limit_runtime, base.runtime)]

resolve_connection_options(connection_options) ==
    IF ~connection_options.some THEN HELIUM_DEFAULT_CONNECTION_OPTIONS
    ELSE LET opts == connection_options.val
             dflt == HELIUM_DEFAULT_CONNECTION_OPTIONS
         IN  [ConnectionOptions_default EXCEPT
                 !.read_only_call_limit = resolve_read_only_call_limit(opts),
                 !.inbox_maxlen = unwrap_or(opts.inbox_maxlen, dflt.inbox_maxlen),
                 !.outbox_maxlen = unwrap_or(opts.outbox_maxlen, dflt.outbox_maxlen),
                 !.timeout = unwrap_or(opts.timeout, dflt.timeout),
                 !.idle_timeout = unwrap_or(opts.idle_timeout, dflt.idle_timeout),
                 !.heartbeat = unwrap_or(opts.heartbeat, dflt.heartbeat),
                 !.private_key_lifetime = unwrap_or(opts.private_key_lifetime, dflt.private_key_lifetime),
                 !.num_neighbors = unwrap_or(opts.num_neighbors, dflt.num_neighbors),
                 !.num_clients = unwrap_or(opts.num_clients, dflt.num_clients),
                 !.soft_num_neighbors = unwrap_or(opts.soft_num_neighbors, dflt.soft_num_neighbors),
                 !.soft_num_clients = unwrap_or(opts.soft_num_clients, dflt.soft_num_clients),
                 !.max_neighbors_per_host =
                     unwrap_or(opts.max_neighbors_per_host, dflt.max_neighbors_per_host),
                 !.max_clients_per_host = unwrap_or(opts.max_clients_per_host, dflt.max_clients_per_host),
                 !.soft_max_neighbors_per_host =
                     unwrap_or(opts.soft_max_neighbors_per_host, dflt.soft_max_neighbors_per_host),
                 !.soft_max_neighbors_per_org =
                     unwrap_or(opts.soft_max_neighbors_per_org, dflt.soft_max_neighbors_per_org),
                 !.soft_max_clients_per_host =
                     unwrap_or(opts.soft_max_clients_per_host, dflt.soft_max_clients_per_host),
                 !.walk_interval = unwrap_or(opts.walk_interval, dflt.walk_interval),
                 !.dns_timeout = unwrap_or(opts.dns_timeout, dflt.dns_timeout),
                 !.max_inflight_blocks = unwrap_or(opts.max_inflight_blocks, dflt.max_inflight_blocks),
                 !.maximum_call_argument_size =
                     unwrap_or(opts.maximum_call_argument_size, dflt.maximum_call_argument_size)]

\* Config::from_config_file: lines 83-223. buf is what rng.fill_bytes gives
\* NodeConfig::default, env_var what std::env::var gives.
from_config_file(file, buf, env_var) ==
    LET via == "from_config_file"
        node == resolve_node(file.node, NodeConfig_default(buf))
    IN  IF ~node.ok THEN Panicked(via, node.err)
        ELSE LET burnchain == resolve_burnchain(file.burnchain, BurnchainConfig_default, node.val)
                 mode_checked == check_mode(burnchain)
                 key_checked == check_mining_key(burnchain)
                 initial_balances == resolve_initial_balances(file.mstx_balance)
                 events_observers == resolve_events_observers(file.events_observer)
             IN  IF ~mode_checked.ok THEN Panicked(via, mode_checked.err)
                 ELSE IF ~key_checked.ok THEN Panicked(via, key_checked.err)
                 ELSE IF ~initial_balances.ok THEN Panicked(via, initial_balances.err)
                 ELSE IF ~events_observers.ok THEN Panicked(via, events_observers.err)
                 ELSE Returned(via,
                          [node |-> node.val,
                           burnchain |-> burnchain,
                           initial_balances |-> initial_balances.val,
                           events_observers |-> push_env_observer(events_observers.val, env_var),
                           connection_options |-> resolve_connection_options(file.connection_options)])

\* mutant: the new balance is put in front of the list (insert(0, ..))
add_initial_balance_in_front(self, address, amount) ==
    LET parsed == parse_standard_principal(address)
    IN  IF ~parsed.ok THEN Err("unwrap: parse_standard_principal")
        ELSE Ok([self EXCEPT !.initial_balances =
                    <<[address |-> parsed.val, amount |-> amount]>> \o @])

\* Config::add_initial_balance: lines 269-272. The unwrap panics before the push.
add_initial_balance(self, address, amount) ==
    LET parsed == parse_standard_principal(address)
    IN  IF ~parsed.ok THEN Err("unwrap: parse_standard_principal")
        ELSE Ok([self EXCEPT !.initial_balances =
                    Append(@, [address |-> parsed.val, amount |-> amount])])

\* Config::default: lines 246-267
Config_default(buf) ==
    LET node == NodeConfig_default(buf)
        burnchain == [BurnchainConfig_default EXCEPT
                         !.spv_headers_path = get_default_spv_headers_path(node)]
    IN  Returned("default",
            [node |-> node,
             burnchain |-> burnchain,
             initial_balances |-> <<>>,
             events_observers |-> <<>>,
             connection_options |-> HELIUM_DEFAULT_CONNECTION_OPTIONS])

(***************************************************************************)
(* The documents the model resolves. Each section is drawn from a set that *)
(* toggles its fields one by one and holds its malformed values; a         *)
(* document varies one section over its whole set with the other sections  *)
(* all absent or all present, or combines a few values of every section.   *)
(***************************************************************************)
ConfigFile(burnchain, node, mstx_balance, events_observer, connection_options) ==
    [burnchain |-> burnchain, node |-> node, mstx_balance |-> mstx_balance,
     events_observer |-> events_observer, connection_options |-> connection_options]

Section(names, present, sample) ==
    [f \in names |-> IF f \in present THEN Some(sample[f]) ELSE None]

SeqsUpTo(entries, n) == UNION {[1..k -> entries] : k \in 0..n}

\* [node]
GoodSeed == <<"0", "0", "f", "f">>
GoodBootstrap == <<"0", "2", "@", "h", ":", "1">>
SeedSamples == {GoodSeed, <<"z", "z">>, <<"0">>}
BootstrapSamples ==
    {GoodBootstrap, <<"0", "2">>, <<"0", "2", "@", "h", ":", "1", "@">>,
     <<"0", "2", "@", "h">>, <<"z", "@", "h", ":", "1">>, <<"@">>}

NodeConfigFile(name, seed, working_dir, rpc_bind, p2p_bind, bootstrap_node) ==
    [name |-> name, seed |-> seed, working_dir |-> working_dir,
     rpc_bind |-> rpc_bind, p2p_bind |-> p2p_bind, bootstrap_node |-> bootstrap_node]

FullNodeSection ==
    NodeConfigFile(Some("alice"), Some(GoodSeed), Some("/data"), Some("0.0.0.0:20443"),
                   Some("0.0.0.0:20444"), Some(GoodBootstrap))
EmptyNodeSection == NodeConfigFile(None, None, None, None, None, None)

NodeSections ==
    {None}
    \cup {Some(NodeConfigFile(name, seed, working_dir, rpc_bind, p2p_bind, bootstrap_node)) :
            name \in {None, Some("alice")}, seed \in {None, Some(GoodSeed)},
            working_dir \in {None, Some("/data")}, rpc_bind \in {None, Some("0.0.0.0:20443")},
            p2p_bind \in {None, Some("0.0.0.0:20444")},
            bootstrap_node \in {None, Some(GoodBootstrap)}}
    \cup {Some(NodeConfigFile(None, seed, None, None, None, bootstrap_node)) :
            seed \in {None} \cup {Some(x) : x \in SeedSamples},
            bootstrap_node \in {None} \cup {Some(x) : x \in BootstrapSamples}}

\* [burnchain]
BurnchainFields ==
    {"chain", "burn_fee_cap", "mode", "block_time", "commit_anchor_block_within", "peer_host",
     "peer_port", "rpc_port", "rpc_ssl", "username", "password", "timeout", "spv_headers_path",
     "first_block", "magic_bytes", "local_mining_public_key", "burnchain_op_tx_fee"}

ModeSamples == {"mocknet", "helium", "neon", "neon-god", "krypton", "Helium"}

BurnchainSample(mode) ==
    [chain |-> "dogecoin", burn_fee_cap |-> 20000, mode |-> mode, block_time |-> 60,
     commit_anchor_block_within |-> 10, peer_host |-> "10.0.0.1", peer_port |-> 18333,
     rpc_port |-> 18332, rpc_ssl |-> TRUE, username |-> "user", password |-> "secret",
     timeout |-> 60, spv_headers_path |-> "/spv.dat", first_block |-> 1, magic_bytes |-> "T2",
     local_mining_public_key |-> "04ee", burnchain_op_tx_fee |-> 2000]

FieldChoices(names) ==
    {{}, names}
    \cup {{f} : f \in names}
    \cup {{f, g} : f, g \in names}
    \cup {names \ {f} : f \in names}

BurnchainSections ==
    {None}
    \cup {Some(Section(BurnchainFields, present, BurnchainSample(mode))) :
            present \in FieldChoices(BurnchainFields), mode \in ModeSamples}

FullBurnchainSection == Section(BurnchainFields, BurnchainFields, BurnchainSample("helium"))
BurnchainWith(present, mode) == Section(BurnchainFields, present, BurnchainSample(mode))

\* [[mstx_balance]]
BalanceEntries ==
    {[address |-> <<"S", "P">>, amount |-> 100],
     [address |-> <<"S", "Q">>, amount |-> 200],
     [address |-> <<"x">>, amount |-> 300]}

BalanceSections == {None} \cup {Some(b) : b \in SeqsUpTo(BalanceEntries, MaxBalances)}

\* [[events_observer]]
AssetKey == <<"S", "P", ".", "s", "t", "x", ".", "x">>
ContractKey == <<"S", "Q", ".", "t", ":", ":", "x">>
ObserverEntries ==
    {[endpoint |-> "a:1", events_keys |-> <<<<"*">>>>],
     [endpoint |-> "b:2", events_keys |-> <<<<"s", "t", "x">>, AssetKey>>],
     [endpoint |-> "c:3", events_keys |-> <<ContractKey>>],
     [endpoint |-> "d:4", events_keys |-> <<AssetKey, <<"x", ":", ":", "x", ":", ":", "x">>>>],
     [endpoint |-> "e:5", events_keys |-> <<>>]}

ObserverSections == {None} \cup {Some(o) : o \in SeqsUpTo(ObserverEntries, MaxObservers)}

EnvValues == {None, Some("a:1")}

\* [connection_options]
ConnectionFields ==
    {"inbox_maxlen", "outbox_maxlen", "timeout", "idle_timeout", "heartbeat",
     "private_key_lifetime", "num_neighbors", "num_clients", "soft_num_neighbors",
     "soft_num_clients", "max_neighbors_per_host", "max_clients_per_host",
     "soft_max_neighbors_per_host", "soft_max_neighbors_per_org", "soft_max_clients_per_host",
     "walk_interval", "dns_timeout", "max_inflight_blocks", "read_only_call_limit_write_length",
     "read_only_call_limit_read_length", "read_only_call_limit_write_count",
     "read_only_call_limit_read_count", "read_only_call_limit_runtime",
     "maximum_call_argument_size"}

ConnectionSample == [f \in ConnectionFields |-> 7]

ConnectionChoices ==
    {{}, ConnectionFields}
    \cup {{f} : f \in ConnectionFields}
    \cup {ConnectionFields \ {f} : f \in ConnectionFields}

ConnectionSections ==
    {None}
    \cup {Some(Section(ConnectionFields, present, ConnectionSample)) : present \in ConnectionChoices}

\* the documents
AbsentDocument == ConfigFile(None, None, None, None, None)
PresentDocument ==
    ConfigFile(Some(FullBurnchainSection), Some(FullNodeSection),
               Some(<<[address |-> <<"S", "P">>, amount |-> 100]>>),
               Some(<<[endpoint |-> "b:2", events_keys |-> <<<<"s", "t", "x">>, AssetKey>>]>>),
               Some(Section(ConnectionFields, {"heartbeat"}, ConnectionSample)))

ConfigFiles ==
    UNION {
        {[base EXCEPT !.node = n] : n \in NodeSections}
        \cup {[base EXCEPT !.burnchain = b] : b \in BurnchainSections}
        \cup {[base EXCEPT !.mstx_balance = m] : m \in BalanceSections}
        \cup {[base EXCEPT !.events_observer = e] : e \in ObserverSections}
        \cup {[base EXCEPT !.connection_options = c] : c \in ConnectionSections}
        : base \in {AbsentDocument, PresentDocument}}
    \cup {ConfigFile(b, n, m, e, None) :
            b \in {None, Some(BurnchainWith({}, "mocknet")),
                   Some(BurnchainWith({"spv_headers_path"}, "mocknet")),
                   Some(BurnchainWith({"mode"}, "helium")),
                   Some(BurnchainWith({"mode", "local_mining_public_key"}, "helium")),
                   Some(BurnchainWith({"mode"}, "krypton"))},
            n \in {None, Some(EmptyNodeSection), Some(FullNodeSection),
                   Some(NodeConfigFile(None, None, Some("/data"), None, None, None))},
            m \in {None, Some(<<[address |-> <<"x">>, amount |-> 300]>>)},
            e \in {None, Some(<<>>), Some(<<[endpoint |-> "a:1", events_keys |-> <<<<"*">>>>]>>)}}

\* what rng.fill_bytes can leave in the 8-byte buffer
RandomBuffers == {<<0, 0, 0, 0, 0, 0, 0, 0>>, <<255, 255, 251, 255, 171, 205, 239, 1>>}

\* the strings handed to EventKeyType::from_string: up to MaxKeyTokens of these, joined
KeyTokens == {<<"*">>, <<"s", "t", "x">>, <<":", ":">>, <<":">>, <<".">>, <<"S", "P">>, <<"x">>}

RECURSIVE KeysUpTo(_)
KeysUpTo(n) ==
    IF n = 0 THEN {<<>>}
    ELSE LET shorter == KeysUpTo(n - 1)
         IN  shorter \cup {k \o t : k \in shorter, t \in KeyTokens}

KeyStrings == KeysUpTo(MaxKeyTokens)

(***************************************************************************)
(* The state machine. Spec: a process holds a parsed document and an       *)
(* environment, and builds a Config from the document or from the defaults *)
(* alone, any number of times. SpecKey: EventKeyType::from_string is       *)
(* called on a string.                                                     *)
(***************************************************************************)
Uncalled == [called |-> FALSE]

Init ==
    /\ config_file \in ConfigFiles
    /\ env_observer \in EnvValues
    /\ outcome = NotCalled
    /\ previous = NotCalled
    /\ raw_key = <<>>
    /\ parsed_key = Uncalled
    /\ rand_buf = <<>>
    /\ node_default = Uncalled
    /\ built = NotCalled
    /\ calls = <<>>

FromConfigFile ==
    \E buf \in RandomBuffers :
        /\ outcome' = from_config_file(config_file, buf, env_observer)
        /\ built' = outcome'
        /\ calls' = <<>>
        /\ previous' = IF outcome.kind # "none" /\ outcome.via = "from_config_file"
                       THEN outcome ELSE NotCalled
        /\ UNCHANGED <<config_file, env_observer, raw_key, parsed_key, rand_buf, node_default>>

Default ==
    \E buf \in RandomBuffers :
        /\ outcome' = Config_default(buf)
        /\ built' = outcome'
        /\ calls' = <<>>
        /\ previous' = NotCalled
        /\ UNCHANGED <<config_file, env_observer, raw_key, parsed_key, rand_buf, node_default>>

Next == FromConfigFile \/ Default

Spec == Init /\ [][Next]_vars

InitKey ==
    /\ raw_key \in KeyStrings
    /\ parsed_key = Uncalled
    /\ config_file = AbsentDocument
    /\ env_observer = None
    /\ outcome = NotCalled
    /\ previous = NotCalled
    /\ rand_buf = <<>>
    /\ node_default = Uncalled
    /\ built = NotCalled
    /\ calls = <<>>

FromString ==
    /\ ~parsed_key.called
    /\ parsed_key' = [called |-> TRUE, result |-> from_string(raw_key)]
    /\ UNCHANGED <<config_file, env_observer, outcome, previous, raw_key, rand_buf, node_default,
                   built, calls>>

NextKey == FromString

SpecKey == InitKey /\ [][NextKey]_vars

\* SpecPorts: NodeConfig::default is called, whatever bytes the generator gives.
ByteSamples == {0, 1, 3, 4, 127, 251, 252, 255}
PortBuffers ==
    {<<b1, b2, b3, b4>> \o rest :
        b1 \in ByteSamples, b2 \in ByteSamples, b3 \in ByteSamples, b4 \in ByteSamples,
        rest \in {<<0, 0, 0, 0>>, <<171, 205, 239, 1>>}}

InitPorts ==
    /\ rand_buf \in PortBuffers
    /\ node_default = Uncalled
    /\ config_file = AbsentDocument
    /\ env_observer = None
    /\ outcome = NotCalled
    /\ previous = NotCalled
    /\ raw_key = <<>>
    /\ parsed_key = Uncalled
    /\ built = NotCalled
    /\ calls = <<>>

NodeDefault ==
    /\ ~node_default.called
    /\ node_default' = [called |-> TRUE, result |-> NodeConfig_default(rand_buf)]
    /\ UNCHANGED <<config_file, env_observer, outcome, previous, raw_key, parsed_key, rand_buf,
                   built, calls>>

NextPorts == NodeDefault

SpecPorts == InitPorts /\ [][NextPorts]_vars

\* SpecAdd: a Config is built, from a document or from the defaults, and
\* add_initial_balance is then called on it up to MaxCalls times. A call that
\* panics leaves the Config as it was.
AddConfigFiles ==
    {AbsentDocument, PresentDocument,
     [PresentDocument EXCEPT !.mstx_balance =
         Some(<<[address |-> <<"S", "Q">>, amount |-> 200], [address |-> <<"S", "P">>, amount |-> 100]>>)],
     [AbsentDocument EXCEPT !.mstx_balance = Some(<<>>)],
     [AbsentDocument EXCEPT !.mstx_balance = Some(<<[address |-> <<"x">>, amount |-> 300]>>)]}

AddArguments ==
    {[address |-> <<"S", "P">>, amount |-> 100],
     [address |-> <<"S", "Q">>, amount |-> 5],
     [address |-> <<"S">>, amount |-> 7]}

InitAdd ==
    /\ config_file \in AddConfigFiles
    /\ env_observer \in EnvValues
    /\ outcome = NotCalled
    /\ previous = NotCalled
    /\ raw_key = <<>>
    /\ parsed_key = Uncalled
    /\ rand_buf = <<>>
    /\ node_default = Uncalled
    /\ built = NotCalled
    /\ calls = <<>>

AddInitialBalance ==
    \E arg \in AddArguments :
        /\ outcome.kind = "config"
        /\ Len(calls) < MaxCalls
        /\ LET result == add_initial_balance(outcome.config, arg.address, arg.amount)
           IN  /\ outcome' = IF result.ok THEN [outcome EXCEPT !.config = result.val] ELSE outcome
               /\ calls' = Append(calls, [address |-> arg.address, amount |-> arg.amount,
                                          returned |-> result.ok])
        /\ UNCHANGED <<config_file, env_observer, previous, raw_key, parsed_key, rand_buf,
                       node_default, built>>

NextAdd ==
    \/ outcome = NotCalled /\ FromConfigFile
    \/ outcome = NotCalled /\ Default
    \/ AddInitialBalance

SpecAdd == InitAdd /\ [][NextAdd]_vars

(***************************************************************************)
(* What the properties say of a document, read off the document itself.    *)
(***************************************************************************)
ViaFile == outcome.kind # "none" /\ outcome.via = "from_config_file"
FileReturned == ViaFile /\ outcome.kind = "config"
FilePanicked == ViaFile /\ outcome.kind = "panic"

Given(section, field) == section.some /\ section.val[field].some

DocumentMode ==
    IF Given(config_file.burnchain, "mode") THEN config_file.burnchain.val.mode.val ELSE "mocknet"
DocumentMiningKey == Given(config_file.burnchain, "local_mining_public_key")

DocumentBalances == IF config_file.mstx_balance.some THEN config_file.mstx_balance.val ELSE <<>>
DocumentObservers == IF config_file.events_observer.some THEN config_file.events_observer.val ELSE <<>>

IsHexString(s) ==
    /\ Len(s) % 2 = 0
    /\ \A i \in 1..Len(s) :
          s[i] \in {"0", "1", "2", "3", "4", "5", "6", "7", "8", "9", "a", "b", "c", "d", "e", "f",
                    "A", "B", "C", "D", "E", "F"}
BadSeed == Given(config_file.node, "seed") /\ ~IsHexString(config_file.node.val.seed.val)
BadAddress == \E i \in 1..Len(DocumentBalances) : DocumentBalances[i].address \notin StandardPrincipals
BadEventKey ==
    \E i \in 1..Len(DocumentObservers) :
        \E j \in 1..Len(DocumentObservers[i].events_keys) :
            ~from_string(DocumentObservers[i].events_keys[j]).some

\* a bootstrap node of the form <public-key>@<host>:<port>
WellFormedBootstrap(s) ==
    \E key \in PublicKeys : \E addr \in SocketAddrs : s = key \o <<"@">> \o addr
BadBootstrap ==
    Given(config_file.node, "bootstrap_node")
    /\ ~WellFormedBootstrap(config_file.node.val.bootstrap_node.val)

OthersWellFormed == ~BadSeed /\ ~BadBootstrap /\ ~BadAddress /\ ~BadEventKey

(***************************************************************************)
(* C1: a document whose mode (its burnchain.mode, "mocknet" when it gives  *)
(* none) is not mocknet, helium, neon or neon-god makes from_config_file   *)
(* panic, whatever its other fields hold.                                  *)
(***************************************************************************)
C1_UnsupportedModeFails ==
    (ViaFile /\ DocumentMode \notin {"mocknet", "helium", "neon", "neon-god"})
        => outcome.kind = "panic"

C1_Witness ==
    /\ FilePanicked
    /\ DocumentMode = "krypton"
    /\ DocumentMiningKey
    /\ config_file.node.some /\ config_file.mstx_balance.some /\ config_file.events_observer.some
    /\ OthersWellFormed

(***************************************************************************)
(* C2: helium with no local_mining_public_key panics; mocknet, neon and    *)
(* neon-god with no key return a Config when the rest of the document is   *)
(* well-formed; a returned Config in helium mode holds a mining key.       *)
(***************************************************************************)
C2_HeliumNeedsMiningKey ==
    /\ (ViaFile /\ DocumentMode = "helium" /\ ~DocumentMiningKey) => outcome.kind = "panic"
    /\ (ViaFile /\ DocumentMode \in {"mocknet", "neon", "neon-god"} /\ ~DocumentMiningKey
          /\ OthersWellFormed) => outcome.kind = "config"
    /\ outcome.kind = "config" =>
          (outcome.config.burnchain.mode = "helium"
              => outcome.config.burnchain.local_mining_public_key.some)

C2_Witness ==
    /\ FilePanicked
    /\ DocumentMode = "helium" /\ ~DocumentMiningKey /\ OthersWellFormed
    /\ config_file.node.some
    /\ previous.kind = "panic"

(***************************************************************************)
(* C3: a seed that is not hex, an address that is no standard principal or *)
(* an event key from_string does not match makes from_config_file panic;   *)
(* a returned Config holds one balance per [[mstx_balance]] entry and one  *)
(* observer per [[events_observer]] entry, in the document's order (the    *)
(* observer of the environment variable, if any, comes after them).        *)
(***************************************************************************)
C3_NoDegradedConfig ==
    /\ (ViaFile /\ (BadSeed \/ BadAddress \/ BadEventKey)) => outcome.kind = "panic"
    /\ FileReturned =>
          LET balances == outcome.config.initial_balances
              observers == outcome.config.events_observers
          IN  /\ Len(balances) = Len(DocumentBalances)
              /\ \A i \in 1..Len(DocumentBalances) :
                    /\ balances[i].address = [version |-> DocumentBalances[i].address[2]]
                    /\ balances[i].amount = DocumentBalances[i].amount
              /\ Len(observers) = Len(DocumentObservers) + (IF env_observer.some THEN 1 ELSE 0)
              /\ \A i \in 1..Len(DocumentObservers) :
                    /\ observers[i].endpoint = DocumentObservers[i].endpoint
                    /\ Len(observers[i].events_keys) = Len(DocumentObservers[i].events_keys)
                    /\ \A j \in 1..Len(observers[i].events_keys) :
                          Some(observers[i].events_keys[j])
                              = from_string(DocumentObservers[i].events_keys[j])

C3_Witness ==
    /\ FileReturned
    /\ Len(DocumentBalances) = 2 /\ DocumentBalances[1] # DocumentBalances[2]
    /\ Len(DocumentObservers) >= 1
    /\ Len(outcome.config.initial_balances) = 2

(***************************************************************************)
(* C4: a bootstrap_node that is not <public-key>@<host>:<port> (no two     *)
(* "@"-separated parts, a right part that is no socket address, a left     *)
(* part that is no public key) makes from_config_file panic; a returned    *)
(* Config holds a bootstrap peer exactly when the document gives a         *)
(* bootstrap_node.                                                         *)
(***************************************************************************)
C4_MalformedBootstrapIsFatal ==
    /\ (ViaFile /\ BadBootstrap) => outcome.kind = "panic"
    /\ FileReturned =>
          (outcome.config.node.bootstrap_node.some <=> Given(config_file.node, "bootstrap_node"))

(***************************************************************************)
(* C5: from_string gives AnyEvent for "*" and STXEvent for "stx"; else an  *)
(* AssetEvent exactly for <principal>.<contract name>.<asset name>, a      *)
(* SmartContractEvent exactly for <principal>.<contract name>::<event>     *)
(* where <event> is any string without "::", and no match for every other  *)
(* string.                                                                 *)
(***************************************************************************)
IsName(s) == Len(s) >= 1 /\ \A i \in 1..Len(s) : s[i] \in Letters
HasDoubleColon(s) == \E i \in 1..(Len(s) - 1) : s[i] = ":" /\ s[i + 1] = ":"
Rest(s, i) == SubSeq(s, i, Len(s))

AssetShape(s, i, j) ==
    /\ i < j /\ s[i] = "." /\ s[j] = "."
    /\ SubSeq(s, 1, i - 1) \in StandardPrincipals
    /\ IsName(SubSeq(s, i + 1, j - 1))
    /\ IsName(Rest(s, j + 1))

ContractShape(s, i, k) ==
    /\ i < k /\ k < Len(s) /\ s[i] = "." /\ s[k] = ":" /\ s[k + 1] = ":"
    /\ SubSeq(s, 1, i - 1) \in StandardPrincipals
    /\ IsName(SubSeq(s, i + 1, k - 1))
    /\ ~HasDoubleColon(Rest(s, k + 2))

Grammar(s) ==
    LET places == (1..Len(s)) \X (1..Len(s))
        identifier(i, last) == [issuer |-> [version |-> s[2]], name |-> SubSeq(s, i + 1, last)]
    IN  IF s = <<"*">> THEN Some(AnyEvent)
        ELSE IF s = <<"s", "t", "x">> THEN Some(STXEvent)
        ELSE IF \E p \in places : AssetShape(s, p[1], p[2])
        THEN LET p == CHOOSE q \in places : AssetShape(s, q[1], q[2])
             IN  Some(AssetEvent([contract_identifier |-> identifier(p[1], p[2] - 1),
                                  asset_name |-> Rest(s, p[2] + 1)]))
        ELSE IF \E p \in places : ContractShape(s, p[1], p[2])
        THEN LET p == CHOOSE q \in places : ContractShape(s, q[1], q[2])
             IN  Some(SmartContractEvent(identifier(p[1], p[2] - 1), Rest(s, p[2] + 2)))
        ELSE None

C5_EventKeyGrammar == parsed_key.called => parsed_key.result = Grammar(raw_key)

C5_Witness ==
    /\ parsed_key.called
    /\ parsed_key.result.some
    /\ parsed_key.result.val.type = "SmartContractEvent"
    /\ parsed_key.result.val.event = <<"*">>

ReadOnlyCallLimitFields == {"write_length", "write_count", "read_length", "read_count", "runtime"}
FlatConnectionFields ==
    {f \in ConnectionFields : \A g \in ReadOnlyCallLimitFields : f # "read_only_call_limit_" \o g}

C7_ConnectionOptionsMerge ==
    outcome.kind = "config" =>
        LET resolved == outcome.config.connection_options
            dflt == HELIUM_DEFAULT_CONNECTION_OPTIONS
            section == config_file.connection_options
        IN  IF outcome.via = "default" \/ ~section.some THEN resolved = dflt
            ELSE /\ \A f \in FlatConnectionFields :
                       resolved[f] = IF section.val[f].some THEN section.val[f].val ELSE dflt[f]
                 /\ \A g \in ReadOnlyCallLimitFields :
                       LET given == section.val["read_only_call_limit_" \o g]
                       IN  resolved.read_only_call_limit[g]
                               = IF given.some THEN given.val ELSE dflt.read_only_call_limit[g]
                 /\ resolved.rest = dflt.rest

C7_Witness ==
    /\ FileReturned
    /\ config_file.connection_options.some
    /\ \A f \in ConnectionFields : config_file.connection_options.val[f].some <=> f = "heartbeat"
    /\ outcome.config.connection_options
           = [HELIUM_DEFAULT_CONNECTION_OPTIONS EXCEPT !.heartbeat = 7]

(***************************************************************************)
(* C8: every returned Config whose document gives no                       *)
(* burnchain.spv_headers_path (a [burnchain] without it, no [burnchain],   *)
(* no document) has spv_headers_path =                                     *)
(* <node.working_dir>/burnchain/spv-headers.dat.                           *)
(***************************************************************************)
C8_SpvHeadersPathFromWorkingDir ==
    (outcome.kind = "config"
        /\ (outcome.via = "default" \/ ~Given(config_file.burnchain, "spv_headers_path")))
    => outcome.config.burnchain.spv_headers_path
           = outcome.config.node.working_dir \o "/burnchain/spv-headers.dat"

(***************************************************************************)
(* C9: each field of [node] and [burnchain], the magic bytes among them,   *)
(* is the document's value in the returned Config when the document gives  *)
(* it and the default otherwise; a document with no sections gives mode    *)
(* "mocknet", chain "bitcoin" and a seed of 32 zero bytes. (Stated for the *)
(* fields C4 and C8 do not cover: bootstrap_node and the default of        *)
(* spv_headers_path are left out.)                                         *)
(***************************************************************************)
OverridableBurnchainFields ==
    {"chain", "mode", "burn_fee_cap", "commit_anchor_block_within", "peer_host", "peer_port",
     "rpc_port", "rpc_ssl", "timeout", "first_block", "magic_bytes", "burnchain_op_tx_fee"}
OptionalBurnchainFields == {"username", "password", "local_mining_public_key"}

C9_FieldwiseDefaultOrOverride ==
    FileReturned =>
        LET node == outcome.config.node
            burnchain == outcome.config.burnchain
        IN  /\ \A f \in {"name", "working_dir", "rpc_bind", "p2p_bind"} :
                  IF Given(config_file.node, f) THEN node[f] = config_file.node.val[f].val
                  ELSE \E buf \in RandomBuffers : node[f] = NodeConfig_default(buf)[f]
            /\ IF Given(config_file.node, "seed")
               THEN node.seed = hex_bytes(config_file.node.val.seed.val).val
               ELSE node.seed = [i \in 1..32 |-> 0]
            /\ \A f \in OverridableBurnchainFields :
                  burnchain[f] = IF Given(config_file.burnchain, f)
                                 THEN config_file.burnchain.val[f].val
                                 ELSE BurnchainConfig_default[f]
            /\ \A f \in OptionalBurnchainFields :
                  burnchain[f] = IF config_file.burnchain.some
                                 THEN config_file.burnchain.val[f] ELSE None
            /\ Given(config_file.burnchain, "spv_headers_path") =>
                  burnchain.spv_headers_path = config_file.burnchain.val.spv_headers_path.val
            /\ config_file = AbsentDocument =>
                  /\ burnchain.mode = "mocknet" /\ burnchain.chain = "bitcoin"
                  /\ node.seed = [i \in 1..32 |-> 0]

(***************************************************************************)
(* C10, as claimed: two resolutions of one document give identical         *)
(* Configs when the document has a [node] section, and Configs that differ *)
(* at most in the node's seed, bind addresses and working directory when   *)
(* it has none.                                                            *)
(***************************************************************************)
Repeated == ViaFile /\ previous.kind # "none"

C10_IdenticalUnlessNodeAbsent ==
    Repeated =>
        IF outcome.kind = "config" /\ previous.kind = "config"
        THEN IF config_file.node.some THEN outcome.config = previous.config
             ELSE /\ outcome.config.burnchain = previous.config.burnchain
                  /\ outcome.config.initial_balances = previous.config.initial_balances
                  /\ outcome.config.events_observers = previous.config.events_observers
                  /\ outcome.config.connection_options = previous.config.connection_options
                  /\ outcome.config.node.name = previous.config.node.name
                  /\ outcome.config.node.bootstrap_node = previous.config.node.bootstrap_node
        ELSE outcome = previous

(***************************************************************************)
(* C10, amended: two resolutions of one document under one environment     *)
(* both panic alike or both return, and the two Configs are equal in every *)
(* field but these: node.working_dir, node.rpc_bind and node.p2p_bind may  *)
(* each differ only when the document does not give that field (with or    *)
(* without a [node] section), and burnchain.spv_headers_path only when the *)
(* document gives neither it nor node.working_dir. The seed never differs. *)
(***************************************************************************)
C10_IdenticalButRandomDefaults ==
    Repeated =>
        IF outcome.kind = "config" /\ previous.kind = "config"
        THEN LET a == outcome.config
                 b == previous.config
             IN  /\ a.initial_balances = b.initial_balances
                 /\ a.events_observers = b.events_observers
                 /\ a.connection_options = b.connection_options
                 /\ a.node.name = b.node.name
                 /\ a.node.seed = b.node.seed
                 /\ a.node.bootstrap_node = b.node.bootstrap_node
                 /\ \A f \in {"working_dir", "rpc_bind", "p2p_bind"} :
                       Given(config_file.node, f) => a.node[f] = b.node[f]
                 /\ [a.burnchain EXCEPT !.spv_headers_path = ""]
                        = [b.burnchain EXCEPT !.spv_headers_path = ""]
                 /\ (Given(config_file.burnchain, "spv_headers_path")
                        \/ Given(config_file.node, "working_dir"))
                    => a.burnchain.spv_headers_path = b.burnchain.spv_headers_path
        ELSE outcome = previous

\* a [node] section without working_dir, and two Configs that differ in it and in the path under it
C10_Witness ==
    /\ Repeated
    /\ outcome.kind = "config" /\ previous.kind = "config"
    /\ config_file.node.some /\ ~Given(config_file.node, "working_dir")
    /\ config_file.burnchain.some
    /\ outcome.config.node.working_dir # previous.config.node.working_dir
    /\ outcome.config.burnchain.spv_headers_path # previous.config.burnchain.spv_headers_path
    /\ outcome.config.node.seed = previous.config.node.seed

(***************************************************************************)
(* C11: whatever the 8 random bytes are, NodeConfig::default binds RPC to  *)
(* port min(65535, 1024 + the big-endian u16 of bytes 0..2) and P2P to     *)
(* port min(65535, 1024 + the big-endian u16 of bytes 2..4): both ports    *)
(* lie in 1024..65535, and the call returns.                               *)
(***************************************************************************)
Least(a, b) == IF a <= b THEN a ELSE b
BigEndian(bytes, i) == bytes[i] * 256 + bytes[i + 1]

C11_DefaultPortsSaturate ==
    node_default.called =>
        LET rpc_port == Least(65535, 1024 + BigEndian(rand_buf, 1))
            p2p_port == Least(65535, 1024 + BigEndian(rand_buf, 3))
        IN  /\ rpc_port \in 1024..65535
            /\ p2p_port \in 1024..65535
            /\ node_default.result.rpc_bind = "127.0.0.1:" \o ToString(rpc_port)
            /\ node_default.result.p2p_bind = "127.0.0.1:" \o ToString(p2p_port)

\* the first pair of bytes at its maximum, the second one short of saturating
C11_Witness ==
    /\ node_default.called
    /\ BigEndian(rand_buf, 1) = 65535
    /\ BigEndian(rand_buf, 3) = 64511
    /\ node_default.result.rpc_bind = "127.0.0.1:65535"
    /\ node_default.result.p2p_bind = "127.0.0.1:65535"

(***************************************************************************)
(* C12: after a Config is built and add_initial_balance is called on it    *)
(* any number of times, initial_balances is the list as built followed by  *)
(* one entry per call that returned, in call order, with the call's parsed *)
(* address and amount; node, burnchain, events_observers and               *)
(* connection_options are as built; a call returns exactly when its        *)
(* address is a standard principal, and a call that does not adds nothing. *)
(***************************************************************************)
C12_AddInitialBalanceAppends ==
    (outcome.kind = "config" /\ built.kind = "config") =>
        LET added == SelectSeq(calls, LAMBDA call : call.address \in StandardPrincipals)
        IN  /\ \A i \in 1..Len(calls) :
                  calls[i].returned <=> calls[i].address \in StandardPrincipals
            /\ outcome.config.initial_balances
                   = built.config.initial_balances
                     \o [i \in 1..Len(added) |->
                            [address |-> [version |-> added[i].address[2]],
                             amount |-> added[i].amount]]
            /\ outcome.config.node = built.config.node
            /\ outcome.config.burnchain = built.config.burnchain
            /\ outcome.config.events_observers = built.config.events_observers
            /\ outcome.config.connection_options = built.config.connection_options

\* two calls that return around one that panics, on a Config built with two balances
C12_Witness ==
    /\ outcome.kind = "config"
    /\ Len(built.config.initial_balances) = 2
    /\ Len(calls) = 3
    /\ calls[1].returned /\ ~calls[2].returned /\ calls[3].returned
    /\ calls[1].address # calls[3].address
    /\ Len(outcome.config.initial_balances) = 4

=============================================================================
